---------------------------- MODULE Spec2Model ----------------------------
(***************************************************************************)
(* Model of app.py: a Streamlit form (question + expert persona) whose     *)
(* submission is answered by get_llm_response, which looks the persona up  *)
(* in system_prompts, builds a two-message ChatPromptTemplate and runs it  *)
(* through an LLMChain over the module-level ChatOpenAI handle.            *)
(*                                                                         *)
(* Text is modelled as a sequence of chunks: "{" and "}" are the brace     *)
(* characters the prompt template gives meaning to, " " is whitespace,     *)
(* every other chunk is a run of ordinary characters.  TLA+ string         *)
(* literals are ASCII here; the Japanese originals are in the comments.    *)
(***************************************************************************)
EXTENDS Naturals, Sequences, FiniteSets

VARIABLES
    llm,            \* module-level handle, app.py:36
    user_question,  \* main: value of st.text_area
    expert_type,    \* main: value of st.radio
    submit,         \* main: value of st.form_submit_button
    pc,             \* position of the running script / call
    call_args,      \* invocations of get_llm_response made by the current run
    requests,       \* requests the provider received from the current run
    response,       \* value returned by chain.run (NoResponse before it returns)
    exc,            \* exception in flight or caught ("none" when there is none)
    rendered,       \* elements the current run put on the page, in order
    seen,           \* history: kinds of outcome of the earlier runs
    last_answer     \* history: the last answer an earlier run obtained

vars == <<llm, user_question, expert_type, submit, pc, call_args, requests,
          response, exc, rendered, seen, last_answer>>

---------------------------------------------------------------------------
(* Bounds and input sets *)

MaxLen == 3

\* "ryouri no senmonka" = 料理の専門家, "houritsu no senmonka" = 法律の専門家,
\* "ryokou adobaizaa" = 旅行アドバイザー
RadioOptions == <<"ryouri no senmonka", "houritsu no senmonka", "ryokou adobaizaa">>

\* あなたは優秀な料理の専門家です。...レシピを提供してください。
CulinaryInstruction == <<"anata wa yuushuu na ryouri no senmonka desu ...">>
\* あなたは経験豊富な法律の専門家です。...助言を提供してください。
LegalInstruction == <<"anata wa keiken houfu na houritsu no senmonka desu ...">>
\* あなたは世界中の観光地に詳しい旅行アドバイザーです。...提供してください。
TravelInstruction == <<"anata wa sekaijuu no kankouchi ni kuwashii ryokou adobaizaa desu ...">>
\* あなたは有能な専門家です。質問に対して誠実かつ明確に回答してください。
FallbackInstruction == <<"anata wa yuunou na senmonka desu ...">>

system_prompts ==
    [e \in {RadioOptions[1], RadioOptions[2], RadioOptions[3]} |->
        CASE e = RadioOptions[1] -> CulinaryInstruction
          [] e = RadioOptions[2] -> LegalInstruction
          [] e = RadioOptions[3] -> TravelInstruction]

Whitespace == {" "}

\* Chunks a user can type: whitespace, an ordinary character, the two brace
\* characters, and (pasted whole) the text of the legal expert's instruction.
Chunks == {" ", "a", "{", "}"} \cup {LegalInstruction[1]}

RECURSIVE SeqsUpTo(_, _)
SeqsUpTo(S, n) ==
    IF n = 0 THEN {<<>>}
    ELSE LET shorter == SeqsUpTo(S, n - 1)
         IN  shorter \cup {Append(s, c) : s \in shorter, c \in S}

Questions == SeqsUpTo(Chunks, MaxLen)

\* Persona values get_llm_response can be handed when called directly.
Experts == {RadioOptions[1], RadioOptions[2], RadioOptions[3], "", "ryouri", "isha"}

\* Texts the provider may produce.  オムライスがおすすめです。
Answers == {<<"omuraisu ga osusume desu.">>, <<" ", "{a}", " ">>}

\* Kinds of failure of the transport/provider layer.
Failures == {"AuthenticationError", "APIConnectionError", "RateLimitError"}

NoResponse == <<"<no response>">>

---------------------------------------------------------------------------
(* Pure helpers *)

Range(s) == {s[i] : i \in 1..Len(s)}

RECURSIVE LStrip(_)
LStrip(s) ==
    IF s # <<>> /\ Head(s) \in Whitespace THEN LStrip(Tail(s)) ELSE s

RECURSIVE RStrip(_)
RStrip(s) ==
    IF s # <<>> /\ s[Len(s)] \in Whitespace
    THEN RStrip(SubSeq(s, 1, Len(s) - 1)) ELSE s

\* str.strip()
Strip(s) == RStrip(LStrip(s))

\* Faulty variant: the lookup returns another persona's instruction.
system_prompts_get_swapped(expert) ==
    IF expert \in DOMAIN system_prompts
    THEN system_prompts[IF expert = RadioOptions[1] THEN RadioOptions[2]
                        ELSE RadioOptions[1]]
    ELSE FallbackInstruction

\* Faulty variant: an unknown persona defaults to the first persona.
system_prompts_get_first_default(expert) ==
    IF expert \in DOMAIN system_prompts
    THEN system_prompts[expert]
    ELSE system_prompts[RadioOptions[1]]

\* dict.get(expert, default) over system_prompts
system_prompts_get(expert) ==
    IF expert \in DOMAIN system_prompts
    THEN system_prompts[expert]
    ELSE FallbackInstruction

\* "{question}"
HumanTemplate == <<"{", "question", "}">>

Lit(c) == [kind |-> "lit", text |-> <<c>>]
Field(name) == [kind |-> "field", text |-> name]
ParseFail == [ok |-> FALSE, parts |-> <<>>]
Cons(p, r) == IF r.ok THEN [ok |-> TRUE, parts |-> <<p>> \o r.parts] ELSE ParseFail

\* The f-string template parser behind ChatPromptTemplate.from_messages:
\* "{{" and "}}" are escaped braces, "{name}" is a replacement field, a lone
\* or unclosed brace is a ValueError.
RECURSIVE ParseTemplate(_)
ParseTemplate(t) ==
    IF t = <<>> THEN [ok |-> TRUE, parts |-> <<>>]
    ELSE IF Head(t) = "{" THEN
        IF Len(t) >= 2 /\ t[2] = "{"
        THEN Cons(Lit("{"), ParseTemplate(SubSeq(t, 3, Len(t))))
        ELSE LET closes == {j \in 2..Len(t) : t[j] = "}"}
             IN  IF closes = {} THEN ParseFail
                 ELSE LET j == CHOOSE k \in closes : \A m \in closes : k <= m
                          name == SubSeq(t, 2, j - 1)
                      IN  IF "{" \in Range(name) THEN ParseFail
                          ELSE Cons(Field(name), ParseTemplate(SubSeq(t, j + 1, Len(t))))
    ELSE IF Head(t) = "}" THEN
        IF Len(t) >= 2 /\ t[2] = "}"
        THEN Cons(Lit("}"), ParseTemplate(SubSeq(t, 3, Len(t))))
        ELSE ParseFail
    ELSE Cons(Lit(Head(t)), ParseTemplate(Tail(t)))

\* Formatting parsed parts with the chain's inputs: a literal is copied, a
\* field is replaced by the value of the input of that name (the value is
\* not parsed again); a field with no input of that name is an error.
RECURSIVE FormatParts(_, _)
FormatParts(parts, inputs) ==
    IF parts = <<>> THEN [ok |-> TRUE, text |-> <<>>]
    ELSE LET p == Head(parts)
             rest == FormatParts(Tail(parts), inputs)
         IN  IF ~rest.ok THEN [ok |-> FALSE, text |-> <<>>]
             ELSE IF p.kind = "lit" THEN [ok |-> TRUE, text |-> p.text \o rest.text]
             ELSE IF p.text \in DOMAIN inputs
                  THEN [ok |-> TRUE, text |-> inputs[p.text] \o rest.text]
                  ELSE [ok |-> FALSE, text |-> <<>>]

\* The list handed to ChatPromptTemplate.from_messages
prompt_messages(system_message) ==
    << [role |-> "system", template |-> system_message],
       [role |-> "human", template |-> HumanTemplate] >>

\* Faulty variant: the question is trimmed before it is sent.
chain_inputs_stripped(question) == [n \in {<<"question">>} |-> Strip(question)]

\* The inputs handed to chain.run: {"question": question}
chain_inputs(question) == [n \in {<<"question">>} |-> question]

\* ChatPromptTemplate.from_messages followed by the formatting chain.run
\* does: the messages sent to the model, or a failure.
RECURSIVE FormatMessages(_, _)
FormatMessages(templates, inputs) ==
    IF templates = <<>> THEN [ok |-> TRUE, messages |-> <<>>]
    ELSE LET m == Head(templates)
             parsed == ParseTemplate(m.template)
             text == FormatParts(parsed.parts, inputs)
             rest == FormatMessages(Tail(templates), inputs)
         IN  IF parsed.ok /\ text.ok /\ rest.ok
             THEN [ok |-> TRUE,
                   messages |-> <<[role |-> m.role, content |-> text.text]>> \o rest.messages]
             ELSE [ok |-> FALSE, messages |-> <<>>]

\* Faulty variant: ChatOpenAI() with the library's default temperature,
\* 0.7 (temperatures are in tenths).
ChatOpenAI_default == [temperature |-> 7]

\* ChatOpenAI(temperature=0)
ChatOpenAI == [temperature |-> 0]


---------------------------------------------------------------------------
(* Page elements *)

\* st.warning("質問を入力してください。", icon=...)
WarningElement == [kind |-> "warning", body |-> <<"shitsumon wo nyuuryoku shite kudasai.">>]

\* st.markdown("### 回答")
HeadingElement == [kind |-> "markdown", body |-> <<"### kaitou">>]

\* st.write(answer)
WriteElement(answer) == [kind |-> "write", body |-> answer]

\* st.error("回答の生成中にエラーが発生しました。...\nAn error occurred while
\* generating the answer. ..."): the text of the notice
ErrorNotice ==
    <<"kaitou no seiseichuu ni eraa ga hassei shimashita. ...",
      "An error occurred while generating the answer. ...">>

\* Faulty variant: the notice carries the exception's detail.
ErrorElement_detail(e) == [kind |-> "error", body |-> Append(ErrorNotice, e)]

\* st.error(...): the caught exception e is not used
ErrorElement(e) == [kind |-> "error", body |-> ErrorNotice]

---------------------------------------------------------------------------
(* State machine *)

Init ==
    /\ llm = ChatOpenAI
    /\ user_question = <<>>
    /\ expert_type = RadioOptions[1]
    /\ submit = FALSE
    /\ pc = "start"
    /\ call_args = <<>>
    /\ requests = <<>>
    /\ response = NoResponse
    /\ exc = "none"
    /\ rendered = <<>>
    /\ seen = {}
    /\ last_answer = NoResponse

\* What the run that just ended showed, as a kind of outcome.
LastOutcome ==
    IF pc = "returned" \/ (rendered # <<>> /\ rendered[Len(rendered)].kind = "write")
    THEN {"answer"}
    ELSE IF pc = "except" \/ (rendered # <<>> /\ rendered[Len(rendered)].kind = "error")
    THEN {"error"}
    ELSE IF rendered # <<>> THEN {"warning"}
    ELSE {}

\* The end of one run or call: its outcome joins the history and the
\* locals of the run are gone.
Discard ==
    /\ seen' = seen \cup LastOutcome
    /\ last_answer' = IF response # NoResponse THEN response ELSE last_answer
    /\ call_args' = <<>>
    /\ requests' = <<>>
    /\ response' = NoResponse
    /\ exc' = "none"
    /\ rendered' = <<>>

\* Faulty variant: `not user_question`, without the trimming.
IsBlank_unstripped(question) == question = <<>>

\* `not user_question.strip()`
IsBlank(question) == Strip(question) = <<>>

\* Faulty variant: the chain keeps a memory and sends the previous answer
\* along with the new question.
get_llm_response_with_memory(question, expert) ==
    LET system_message == system_prompts_get(expert)
        sent == FormatMessages(prompt_messages(system_message), chain_inputs(question))
        memory == IF last_answer = NoResponse THEN <<>>
                  ELSE <<[role |-> "ai", content |-> last_answer]>>
    IN  /\ call_args' = Append(call_args, [question |-> question, expert |-> expert])
        /\ response' = response
        /\ IF sent.ok
           THEN /\ requests' = Append(requests,
                        [messages |-> <<sent.messages[1]>> \o memory \o <<sent.messages[2]>>,
                         temperature |-> llm.temperature])
                /\ pc' = "awaiting"
                /\ exc' = exc
           ELSE /\ requests' = requests
                /\ pc' = "except"
                /\ exc' = "ValueError"

\* get_llm_response up to the point where chain.run has handed the request
\* to the provider (or has failed before doing so).
get_llm_response(question, expert) ==
    LET system_message == system_prompts_get(expert)
        sent == FormatMessages(prompt_messages(system_message), chain_inputs(question))
    IN  /\ call_args' = Append(call_args, [question |-> question, expert |-> expert])
        /\ response' = response
        /\ IF sent.ok
           THEN /\ requests' = Append(requests,
                        [messages |-> sent.messages, temperature |-> llm.temperature])
                /\ pc' = "awaiting"
                /\ exc' = exc
           ELSE /\ requests' = requests
                /\ pc' = "except"
                /\ exc' = "ValueError"

\* Streamlit runs the script: the page and the form are drawn and the
\* widgets' values read (lines 102-128).
DrawForm ==
    /\ pc = "start"
    /\ \E q \in Questions, i \in 1..Len(RadioOptions), s \in BOOLEAN :
        /\ user_question' = q
        /\ expert_type' = RadioOptions[i]
        /\ submit' = s
    /\ pc' = "form"
    /\ UNCHANGED <<llm, call_args, requests, response, exc, rendered, seen, last_answer>>

\* The user interacts again: Streamlit clears the page and starts the
\* script anew; nothing of the run that ended is kept.
Rerun ==
    /\ pc = "idle"
    /\ Discard
    /\ user_question' = <<>>
    /\ expert_type' = RadioOptions[1]
    /\ submit' = FALSE
    /\ pc' = "start"
    /\ UNCHANGED llm

\* `if submit:` is false: the script ends.
NotSubmitted ==
    /\ pc = "form"
    /\ ~submit
    /\ pc' = "idle"
    /\ UNCHANGED <<llm, user_question, expert_type, submit, call_args, requests,
                   response, exc, rendered, seen, last_answer>>

\* Faulty variant: the warning is shown and the call is made all the same.
WarnEmpty_fallthrough ==
    /\ pc = "form"
    /\ submit
    /\ IsBlank(user_question)
    /\ rendered' = Append(rendered, WarningElement)
    /\ get_llm_response(user_question, expert_type)
    /\ UNCHANGED <<llm, user_question, expert_type, submit, seen, last_answer>>

\* Submitted with a blank question: the warning, and the script ends.
WarnEmpty ==
    /\ pc = "form"
    /\ submit
    /\ IsBlank(user_question)
    /\ rendered' = Append(rendered, WarningElement)
    /\ pc' = "idle"
    /\ UNCHANGED <<llm, user_question, expert_type, submit, call_args, requests,
                   response, exc, seen, last_answer>>

\* Submitted with a question: main calls get_llm_response (line 137).
CallGetLlmResponse ==
    /\ pc = "form"
    /\ submit
    /\ ~IsBlank(user_question)
    /\ get_llm_response(user_question, expert_type)
    /\ UNCHANGED <<llm, user_question, expert_type, submit, rendered, seen, last_answer>>

\* Faulty variant: the second chain.run (line 93) is executed too.
ProviderReturns_runs_again ==
    /\ pc = "awaiting"
    /\ \E a \in Answers : response' = a
    /\ requests' = Append(requests, requests[Len(requests)])
    /\ pc' = IF Len(requests) >= 2 THEN "returned" ELSE "awaiting"
    /\ UNCHANGED <<llm, user_question, expert_type, submit, call_args, exc,
                   rendered, seen, last_answer>>

\* chain.run returns the provider's text and get_llm_response returns it
\* (lines 91-92); lines 93-94 are never reached.
ProviderReturns ==
    /\ pc = "awaiting"
    /\ \E a \in Answers : response' = a
    /\ pc' = "returned"
    /\ UNCHANGED <<llm, user_question, expert_type, submit, call_args, requests,
                   exc, rendered, seen, last_answer>>

\* chain.run raises: the exception leaves get_llm_response.
ProviderRaises ==
    /\ pc = "awaiting"
    /\ \E f \in Failures : exc' = f
    /\ pc' = "except"
    /\ UNCHANGED <<llm, user_question, expert_type, submit, call_args, requests,
                   response, rendered, seen, last_answer>>

\* Faulty variant: the answer is trimmed before it is written.
RenderAnswer_stripped ==
    /\ pc = "returned"
    /\ rendered' = rendered \o <<HeadingElement, WriteElement(Strip(response))>>
    /\ pc' = "idle"
    /\ UNCHANGED <<llm, user_question, expert_type, submit, call_args, requests,
                   response, exc, seen, last_answer>>

\* Lines 138-139: the heading, then the answer.
RenderAnswer ==
    /\ pc = "returned"
    /\ rendered' = rendered \o <<HeadingElement, WriteElement(response)>>
    /\ pc' = "idle"
    /\ UNCHANGED <<llm, user_question, expert_type, submit, call_args, requests,
                   response, exc, seen, last_answer>>

\* Lines 140-145: `except Exception as e`, the notice.
ShowError ==
    /\ pc = "except"
    /\ rendered' = Append(rendered, ErrorElement(exc))
    /\ pc' = "idle"
    /\ UNCHANGED <<llm, user_question, expert_type, submit, call_args, requests,
                   response, exc, seen, last_answer>>

Next ==
    \/ DrawForm
    \/ NotSubmitted
    \/ WarnEmpty
    \/ CallGetLlmResponse
    \/ ProviderReturns
    \/ ProviderRaises
    \/ RenderAnswer
    \/ ShowError
    \/ Rerun

Spec == Init /\ [][Next]_vars

---------------------------------------------------------------------------
(* get_llm_response called on its own, with any question and any persona *)

DirectCall ==
    /\ pc = "start"
    /\ \E q \in Questions, e \in Experts : get_llm_response(q, e)
    /\ UNCHANGED <<llm, user_question, expert_type, submit, rendered, seen, last_answer>>

\* The caller takes the returned text, or the exception, and drops it.
DirectReturn ==
    /\ pc \in {"returned", "except"}
    /\ Discard
    /\ pc' = "start"
    /\ UNCHANGED <<llm, user_question, expert_type, submit>>

NextCompose ==
    \/ DirectCall
    \/ ProviderReturns
    \/ ProviderRaises
    \/ DirectReturn

SpecCompose == Init /\ [][NextCompose]_vars

---------------------------------------------------------------------------
(* Properties *)

DefinedPersonas == DOMAIN system_prompts

InstructionTexts ==
    {CulinaryInstruction, LegalInstruction, TravelInstruction, FallbackInstruction}

\* The instruction texts other than the one of a defined persona.
OtherInstructions(expert) == InstructionTexts \ {system_prompts[expert]}

\* Whether a whole instruction text occurs in a text (each instruction is
\* one chunk).
Occurs(instruction, text) == instruction[1] \in Range(text)

SystemMessageOf(instruction) == [role |-> "system", content |-> instruction]
HumanMessageOf(question) == [role |-> "human", content |-> question]

\* C1 as stated: for a defined persona the system message of the request is
\* exactly that persona's instruction, and no other persona's instruction
\* nor the fallback occurs anywhere in the request.
C1_NoOtherInstructionAnywhere ==
    \A i \in 1..Len(requests) :
        LET expert == call_args[1].expert
            msgs == requests[i].messages
        IN  expert \in DefinedPersonas =>
                /\ msgs[1] = SystemMessageOf(system_prompts[expert])
                /\ \A k \in 1..Len(msgs) : \A other \in OtherInstructions(expert) :
                        ~Occurs(other, msgs[k].content)

\* C1 amended: for a defined persona the request has one system message,
\* the first, and it is exactly that persona's instruction; another
\* instruction text occurs in the request only inside the user message and
\* only when the question itself holds it; the four texts are distinct.
C1_InstructionOfPersonaOnly ==
    /\ Cardinality(InstructionTexts) = 4
    /\ \A i \in 1..Len(requests) :
        LET expert == call_args[1].expert
            question == call_args[1].question
            msgs == requests[i].messages
        IN  expert \in DefinedPersonas =>
                /\ msgs[1] = SystemMessageOf(system_prompts[expert])
                /\ \A k \in 2..Len(msgs) : msgs[k].role # "system"
                /\ \A k \in 1..Len(msgs) : \A other \in OtherInstructions(expert) :
                        Occurs(other, msgs[k].content) =>
                            k = 2 /\ msgs[k].role = "human" /\ Occurs(other, question)

\* A request for the travel adviser whose question holds the legal
\* expert's instruction text.
C1_Witness ==
    /\ pc = "awaiting"
    /\ Len(requests) = 1
    /\ expert_type = RadioOptions[3]
    /\ Occurs(LegalInstruction, user_question)
    /\ requests[1].messages[1].content = TravelInstruction

\* C2: a persona value that is no key of system_prompts resolves to the
\* fallback instruction, and the call does not fail because of it: the
\* request is submitted, and only the provider can make the call fail.
C2_UnknownPersonaFallsBack ==
    \A i \in 1..Len(call_args) :
        call_args[i].expert \notin DefinedPersonas =>
            /\ Len(requests) = 1
            /\ requests[1].messages[1] = SystemMessageOf(FallbackInstruction)
            /\ exc \in {"none"} \cup Failures

\* The empty persona, answered.
C2_Witness ==
    /\ pc = "returned"
    /\ call_args[1].expert = ""
    /\ requests[1].messages[1].content = FallbackInstruction

\* C3: the request holds exactly two messages, the system message and then
\* the user message, and the user message is the question as received.
C3_TwoMessagesQuestionVerbatim ==
    \A i \in 1..Len(call_args) :
        /\ Len(requests) = 1
        /\ Len(requests[1].messages) = 2
        /\ requests[1].messages[1].role = "system"
        /\ requests[1].messages[2] = HumanMessageOf(call_args[i].question)

\* A question with leading whitespace and a brace placeholder, sent as is.
C3_Witness ==
    /\ pc = "awaiting"
    /\ call_args[1].question = <<" ", "{", "}">>
    /\ requests[1].messages[2].content = <<" ", "{", "}">>

\* C4: a submitted question that is empty after trimming yields the warning,
\* no call of get_llm_response and no request; and every call of
\* get_llm_response main makes has a question that is non-empty after
\* trimming.
C4_BlankNeverCalls ==
    /\ (submit /\ Strip(user_question) = <<>>) =>
            /\ call_args = <<>>
            /\ requests = <<>>
            /\ pc = "idle" => rendered = <<WarningElement>>
    /\ \A i \in 1..Len(call_args) : Strip(call_args[i].question) # <<>>

\* A whitespace-only question, submitted and refused.
C4_Witness ==
    /\ pc = "idle"
    /\ submit
    /\ user_question = <<" ", " ">>
    /\ rendered = <<WarningElement>>
    /\ requests = <<>>

\* C5: when the provider call fails, the run ends with exactly one element
\* on the page, the notice, whose text is the same for every failure; no
\* heading and no answer text is rendered at any point of that run.
C5_FailureShowsOneNotice ==
    exc \in Failures =>
        /\ \A k \in 1..Len(rendered) : rendered[k].kind \notin {"markdown", "write"}
        /\ pc = "idle" => rendered = <<[kind |-> "error", body |-> ErrorNotice]>>

\* A rate-limited call, reported.
C5_Witness ==
    /\ pc = "idle"
    /\ exc = "RateLimitError"
    /\ Len(rendered) = 1

\* C6: the handle's temperature is 0 in every state and every request the
\* provider receives carries temperature 0.
C6_TemperatureZero ==
    /\ llm.temperature = 0
    /\ \A i \in 1..Len(requests) : requests[i].temperature = 0

\* A request made after an answered and a failed submission.
C6_Witness ==
    /\ {"answer", "error"} \subseteq seen
    /\ Len(requests) = 1
    /\ requests[1].temperature = 0

C8_Stateless ==
    /\ \A i \in 1..Len(requests) :
            requests[i].messages =
                << SystemMessageOf(system_prompts_get(expert_type)),
                   HumanMessageOf(user_question) >>
    /\ pc = "start" =>
            /\ call_args = <<>> /\ requests = <<>> /\ rendered = <<>>
            /\ response = NoResponse /\ exc = "none"
            /\ user_question = <<>> /\ ~submit

\* A request made after a refused, an answered and a failed submission.
C8_Witness ==
    /\ pc = "awaiting"
    /\ seen = {"warning", "answer", "error"}
    /\ last_answer \in Answers
    /\ Len(requests) = 1

\* C9: when the provider call succeeds the page holds the heading followed
\* by the provider's text, unchanged, and nothing else.
C9_AnswerVerbatim ==
    /\ response # NoResponse => response \in Answers /\ exc = "none"
    /\ (pc = "idle" /\ response # NoResponse) =>
            rendered = <<HeadingElement, [kind |-> "write", body |-> response]>>

\* An answer with surrounding whitespace, rendered.
C9_Witness ==
    /\ pc = "idle"
    /\ response = <<" ", "{a}", " ">>
    /\ Len(rendered) = 2

ShowsWarning == \E k \in 1..Len(rendered) : rendered[k].kind = "warning"
ShowsAnswer == \E k \in 1..Len(rendered) : rendered[k].kind \in {"markdown", "write"}
ShowsNotice == \E k \in 1..Len(rendered) : rendered[k].kind = "error"
OutcomesShown ==
    Cardinality({o \in {"warning", "answer", "error"} :
                    \/ o = "warning" /\ ShowsWarning
                    \/ o = "answer" /\ ShowsAnswer
                    \/ o = "error" /\ ShowsNotice})

\* C10: a run never shows two of {warning, answer block, failure notice};
\* a run without submission shows none and makes no request; a submitted
\* run that has ended shows exactly one.
C10_OneOutcome ==
    /\ OutcomesShown <= 1
    /\ (pc = "idle" /\ ~submit) => rendered = <<>> /\ requests = <<>> /\ call_args = <<>>
    /\ (pc = "idle" /\ submit) => OutcomesShown = 1

\* A submitted run that has ended, after runs of each of the three kinds.
C10_Witness ==
    /\ pc = "idle"
    /\ submit
    /\ seen = {"warning", "answer", "error"}
    /\ OutcomesShown = 1

=============================================================================
